---- MODULE Spec2Model ----
(***************************************************************************)
(* Model of the AwesomeContext retrieval gateway:                          *)
(*   - scripts/cloud-start.sh, the two-process startup orchestrator;       *)
(*   - mcp-server/src/tools/*.ts, the three tool handlers, and the         *)
(*     server.tool registrations of mcp-server/src/index.ts;               *)
(*   - landing/app/api, the admin and geo route handlers of the web        *)
(*     application.                                                        *)
(***************************************************************************)
EXTENDS Integers, Sequences, FiniteSets, TLC

(***************************************************************************)
(* Part 1.  scripts/cloud-start.sh                                         *)
(***************************************************************************)

\* Shell variables are strings; an environment variable is either unset or
\* set to a string (possibly the empty string).
Unset == [isset |-> FALSE, val |-> ""]
SetTo(s) == [isset |-> TRUE, val |-> s]

\* The environments the script is started in.
PortStrings == {"3000", "8420", "8080"}
EnvValues == {Unset, SetTo("")} \cup {SetTo(p) : p \in PortStrings}

\* ${VAR:-default}: the default is used when VAR is unset or null (empty).
DefaultExpand(v, default) == IF v.isset /\ v.val # "" THEN v.val ELSE default

\* line 13: EXTERNAL_PORT=${PORT:-3000}
ExternalPortOf(port) == DefaultExpand(port, "3000")
\* line 14: INTERNAL_PORT=${BACKEND_PORT:-8420}
InternalPortOf(bport) == DefaultExpand(bport, "8420")

\* line 26: for i in $(seq 1 30)
SeqLast == 30
\* A give-up test that is off by one against the loop's last value.
GiveUpAt_OffByOne == SeqLast + 1
\* line 31: if [ $i -eq 30 ]
GiveUpAt == 30

\* line 27: the URL the probe opens; line 41: the URL handed to the gateway.
HealthUrl(p) == [host |-> "127.0.0.1", port |-> p, path |-> "/v1/health"]
BackendUrl(p) == [host |-> "127.0.0.1", port |-> p, path |-> ""]

NoUrl == [host |-> "", port |-> "", path |-> ""]

VARIABLES
  envPORT,          \* PORT in the script's environment
  envBACKEND_PORT,  \* BACKEND_PORT in the script's environment
  EXTERNAL_PORT,    \* shell variable, line 13
  INTERNAL_PORT,    \* shell variable, line 14
  pc,               \* position of the script
  i,                \* loop variable of the for loop, line 26
  backend,          \* the background backend process: [launched, port]
  probes,           \* sequence of the probes answered: [url, ok]
  sleeps,           \* number of completed `sleep 1`
  MCP_PORT,         \* exported, line 40
  AC_BACKEND_URL,   \* exported, line 41
  gatewayStarted,   \* exec node dist/server-http.js has happened
  exitStatus        \* exit status of the script, -1 while it runs

orchVars == <<envPORT, envBACKEND_PORT, EXTERNAL_PORT, INTERNAL_PORT, pc, i,
              backend, probes, sleeps, MCP_PORT, AC_BACKEND_URL,
              gatewayStarted, exitStatus>>

\* The state of the gateway process (Part 3).
VARIABLES
  gw,            \* the gateway process: "starting", "serving" or "exited"
  gwExit,        \* its exit code, -1 while it runs
  calls,         \* per slot, the tool call in flight: handler position,
                 \* arguments and the client calls made for it
  last,          \* the tool call completed last, with what the caller got
  failedBefore   \* some tool call has ended with an error

gwVars == <<gw, gwExit, calls, last, failedBefore>>

\* The state of the web application's API (Part 5).
VARIABLES
  users,         \* the User table: per id, role, source, country and city
  payments,      \* the Payment table: per id, a record or NoPayment
  geoReq,        \* per slot, the POST /api/me/geo request in flight
  lastReq        \* the request answered last: what was asked, the status,
                 \* the answer and the database operations it performed

landVars == <<users, payments, geoReq, lastReq>>

OrchInit ==
  /\ envPORT \in EnvValues
  /\ envBACKEND_PORT \in EnvValues
  /\ EXTERNAL_PORT = ""
  /\ INTERNAL_PORT = ""
  /\ pc = "capture"
  /\ i = 0
  /\ backend = [launched |-> FALSE, port |-> ""]
  /\ probes = <<>>
  /\ sleeps = 0
  /\ MCP_PORT = ""
  /\ AC_BACKEND_URL = NoUrl
  /\ gatewayStarted = FALSE
  /\ exitStatus = -1

\* lines 13-14
CapturePorts ==
  /\ pc = "capture"
  /\ EXTERNAL_PORT' = ExternalPortOf(envPORT)
  /\ INTERNAL_PORT' = InternalPortOf(envBACKEND_PORT)
  /\ pc' = "launch"
  /\ UNCHANGED <<envPORT, envBACKEND_PORT, i, backend, probes, sleeps,
                 MCP_PORT, AC_BACKEND_URL, gatewayStarted, exitStatus>>
  /\ UNCHANGED <<gwVars, landVars>>

\* lines 21-22: PORT=${INTERNAL_PORT} python scripts/serve.py &
\* The loop of line 26 then starts with i = 1.
LaunchBackend ==
  /\ pc = "launch"
  /\ backend' = [launched |-> TRUE, port |-> INTERNAL_PORT]
  /\ i' = 1
  /\ pc' = IF 1 <= SeqLast THEN "probe" ELSE "export"
  /\ UNCHANGED <<envPORT, envBACKEND_PORT, EXTERNAL_PORT, INTERNAL_PORT,
                 probes, sleeps, MCP_PORT, AC_BACKEND_URL, gatewayStarted,
                 exitStatus>>
  /\ UNCHANGED <<gwVars, landVars>>

\* The loop with the wait placed before the test of the probe's result.
ProbeSucceeds_SleepFirst ==
  /\ pc = "probe"
  /\ probes' = Append(probes, [url |-> HealthUrl(INTERNAL_PORT), ok |-> TRUE])
  /\ sleeps' = sleeps + 1
  /\ pc' = "export"
  /\ UNCHANGED <<envPORT, envBACKEND_PORT, EXTERNAL_PORT, INTERNAL_PORT, i,
                 backend, MCP_PORT, AC_BACKEND_URL, gatewayStarted,
                 exitStatus>>
  /\ UNCHANGED <<gwVars, landVars>>

\* A loop without the `break`: it goes on polling after a success.
ProbeSucceeds_NoBreak ==
  /\ pc = "probe"
  /\ probes' = Append(probes, [url |-> HealthUrl(INTERNAL_PORT), ok |-> TRUE])
  /\ pc' = "giveup"
  /\ UNCHANGED <<envPORT, envBACKEND_PORT, EXTERNAL_PORT, INTERNAL_PORT, i,
                 backend, sleeps, MCP_PORT, AC_BACKEND_URL, gatewayStarted,
                 exitStatus>>
  /\ UNCHANGED <<gwVars, landVars>>

\* lines 27-30: the probe answers; on success the loop is left by `break`.
\* Whether the backend answers is the backend's choice.
ProbeSucceeds ==
  /\ pc = "probe"
  /\ probes' = Append(probes, [url |-> HealthUrl(INTERNAL_PORT), ok |-> TRUE])
  /\ pc' = "export"
  /\ UNCHANGED <<envPORT, envBACKEND_PORT, EXTERNAL_PORT, INTERNAL_PORT, i,
                 backend, sleeps, MCP_PORT, AC_BACKEND_URL, gatewayStarted,
                 exitStatus>>
  /\ UNCHANGED <<gwVars, landVars>>

\* line 27 fails, so line 31 is evaluated next.
ProbeFails ==
  /\ pc = "probe"
  /\ probes' = Append(probes, [url |-> HealthUrl(INTERNAL_PORT), ok |-> FALSE])
  /\ pc' = "giveup"
  /\ UNCHANGED <<envPORT, envBACKEND_PORT, EXTERNAL_PORT, INTERNAL_PORT, i,
                 backend, sleeps, MCP_PORT, AC_BACKEND_URL, gatewayStarted,
                 exitStatus>>
  /\ UNCHANGED <<gwVars, landVars>>

\* line 27: urlopen is called without a timeout.  A backend that accepts the
\* connection and never answers leaves the probe, and with it the script,
\* blocked for good.
ProbeHangs ==
  /\ pc = "probe"
  /\ pc' = "hung"
  /\ UNCHANGED <<envPORT, envBACKEND_PORT, EXTERNAL_PORT, INTERNAL_PORT, i,
                 backend, probes, sleeps, MCP_PORT, AC_BACKEND_URL,
                 gatewayStarted, exitStatus>>
  /\ UNCHANGED <<gwVars, landVars>>

\* Giving up with a plain `exit`, which reports success.
GiveUp_ExitZero ==
  /\ pc = "giveup"
  /\ i = GiveUpAt
  /\ exitStatus' = 0
  /\ pc' = "exited"
  /\ UNCHANGED <<envPORT, envBACKEND_PORT, EXTERNAL_PORT, INTERNAL_PORT, i,
                 backend, probes, sleeps, MCP_PORT, AC_BACKEND_URL,
                 gatewayStarted>>
  /\ UNCHANGED <<gwVars, landVars>>

\* lines 31-34: if [ $i -eq 30 ]; then ... exit 1
GiveUp ==
  /\ pc = "giveup"
  /\ i = GiveUpAt
  /\ exitStatus' = 1
  /\ pc' = "exited"
  /\ UNCHANGED <<envPORT, envBACKEND_PORT, EXTERNAL_PORT, INTERNAL_PORT, i,
                 backend, probes, sleeps, MCP_PORT, AC_BACKEND_URL,
                 gatewayStarted>>
  /\ UNCHANGED <<gwVars, landVars>>

\* A loop that starts the backend again after a failed probe.
SleepAndNext_Relaunch ==
  /\ pc = "giveup"
  /\ i # GiveUpAt
  /\ sleeps' = sleeps + 1
  /\ i' = i
  /\ pc' = "launch"
  /\ UNCHANGED <<envPORT, envBACKEND_PORT, EXTERNAL_PORT, INTERNAL_PORT,
                 backend, probes, MCP_PORT, AC_BACKEND_URL, gatewayStarted,
                 exitStatus>>
  /\ UNCHANGED <<gwVars, landVars>>

\* lines 35-36: sleep 1, then the next value of i; after the last value the
\* loop ends and the script goes on with line 38.
SleepAndNext ==
  /\ pc = "giveup"
  /\ i # GiveUpAt
  /\ sleeps' = sleeps + 1
  /\ IF i < SeqLast
       THEN /\ i' = i + 1
            /\ pc' = "probe"
       ELSE /\ i' = i
            /\ pc' = "export"
  /\ UNCHANGED <<envPORT, envBACKEND_PORT, EXTERNAL_PORT, INTERNAL_PORT,
                 backend, probes, MCP_PORT, AC_BACKEND_URL, gatewayStarted,
                 exitStatus>>
  /\ UNCHANGED <<gwVars, landVars>>

\* A gateway given the port the backend was started with.
ExportGatewayEnv_BackendPort ==
  /\ pc = "export"
  /\ MCP_PORT' = backend.port
  /\ AC_BACKEND_URL' = BackendUrl(INTERNAL_PORT)
  /\ pc' = "exec"
  /\ UNCHANGED <<envPORT, envBACKEND_PORT, EXTERNAL_PORT, INTERNAL_PORT, i,
                 backend, probes, sleeps, gatewayStarted, exitStatus>>
  /\ UNCHANGED <<gwVars, landVars>>

\* lines 40-41
ExportGatewayEnv ==
  /\ pc = "export"
  /\ MCP_PORT' = EXTERNAL_PORT
  /\ AC_BACKEND_URL' = BackendUrl(INTERNAL_PORT)
  /\ pc' = "exec"
  /\ UNCHANGED <<envPORT, envBACKEND_PORT, EXTERNAL_PORT, INTERNAL_PORT, i,
                 backend, probes, sleeps, gatewayStarted, exitStatus>>
  /\ UNCHANGED <<gwVars, landVars>>

\* lines 42-43: cd /app/mcp-server; exec node dist/server-http.js
ExecGateway ==
  /\ pc = "exec"
  /\ gatewayStarted' = TRUE
  /\ pc' = "running"
  /\ UNCHANGED <<envPORT, envBACKEND_PORT, EXTERNAL_PORT, INTERNAL_PORT, i,
                 backend, probes, sleeps, MCP_PORT, AC_BACKEND_URL,
                 exitStatus>>
  /\ UNCHANGED <<gwVars, landVars>>

OrchNext ==
  \/ CapturePorts
  \/ LaunchBackend
  \/ ProbeSucceeds
  \/ ProbeFails
  \/ ProbeHangs
  \/ GiveUp
  \/ SleepAndNext
  \/ ExportGatewayEnv
  \/ ExecGateway

\* The orchestrator states of the design, read off the script position.
OrchState ==
  CASE pc \in {"capture", "launch"} -> "Starting"
    [] pc \in {"probe", "giveup", "hung"} -> "WaitingForBackend"
    [] pc \in {"export", "exec"} -> "Ready"
    [] pc = "running" -> "Running"
    [] pc = "exited" -> "Failed"

(***************************************************************************)
(* Part 2.  The tool handlers of mcp-server/src/tools                      *)
(*                                                                         *)
(* Texts that are rendered or inspected are sequences of characters;       *)
(* values that are only passed on (intent, code, rules_filter, session_id) *)
(* are strings.                                                            *)
(***************************************************************************)

\* Array.prototype.join
RECURSIVE Join(_, _)
Join(lines, sep) ==
  IF lines = <<>> THEN <<>>
  ELSE IF Len(lines) = 1 THEN lines[1]
  ELSE lines[1] \o sep \o Join(Tail(lines), sep)

\* A truncation that marks what it cut.
Slice0_Ellipsis(s, n) ==
  IF Len(s) > n THEN SubSeq(s, 1, n) \o <<".", ".", ".">> ELSE s

\* String.prototype.slice(0, n)
Slice0(s, n) == SubSeq(s, 1, IF Len(s) < n THEN Len(s) ELSE n)

Digit(d) == <<"0", "1", "2", "3", "4", "5", "6", "7", "8", "9">>[d + 1]

\* The decimal text of a non-negative integer, as `${n}` renders it.
RECURSIVE NatToText(_)
NatToText(n) ==
  IF n < 10 THEN <<Digit(n)>>
  ELSE NatToText(n \div 10) \o <<Digit(n % 10)>>

\* Number.prototype.toFixed(2) of a score given in hundredths: such a value
\* is its own nearest two-decimal number, so the digits are those of h.
ToFixed2(h) ==
  NatToText(h \div 100) \o <<".">> \o <<Digit((h % 100) \div 10), Digit(h % 10)>>

\* A rendering of the time that drops the fraction.
ToFixed0_Truncate(t) == NatToText(t \div 10)

\* Number.prototype.toFixed(0) of a time given in tenths of a millisecond:
\* the nearest integer, the larger one on a tie.
ToFixed0(t) == NatToText((t + 5) \div 10)

\* Number of places at which lit occurs in text.
Occurrences(lit, text) ==
  Cardinality({k \in 1..(Len(text) - Len(lit) + 1) :
                 SubSeq(text, k, k + Len(lit) - 1) = lit})


\* The literal parts of the handlers' template strings.

\* the separator of join: "\n"
NL ==
  <<"\n">>

\* compliance_verify.ts line 32: "## Compliance Check"
ComplianceHeading ==
  <<"#","#"," ","C","o","m","p","l","i","a","n","c","e"," ","C","h","e","c",
    "k">>

\* compliance_verify.ts lines 36, 77; skill_injector.ts line 51: "---"
Rule3Dashes ==
  <<"-","-","-">>

\* compliance_verify.ts line 37: "**Rules matched:**"
RulesMatched ==
  <<"*","*","R","u","l","e","s"," ","m","a","t","c","h","e","d",":","*","*">>

\* compliance_verify.ts line 73: "## Architecture Guidance"
ArchitectHeading ==
  <<"#","#"," ","A","r","c","h","i","t","e","c","t","u","r","e"," ","G","u",
    "i","d","a","n","c","e">>

\* compliance_verify.ts line 78: "**Matched modules:**"
MatchedModules ==
  <<"*","*","M","a","t","c","h","e","d"," ","m","o","d","u","l","e","s",":",
    "*","*">>

\* compliance_verify.ts lines 27, 68: "  - ["
BulletOpen ==
  <<" "," ","-"," ","[">>

\* compliance_verify.ts lines 27, 68: "] **"
BulletName ==
  <<"]"," ","*","*">>

\* compliance_verify.ts line 27: "**: "
RuleSep ==
  <<"*","*",":"," ">>

\* compliance_verify.ts line 68: "** ("
TypeOpen ==
  <<"*","*"," ","(">>

\* compliance_verify.ts line 68: ")"
TypeClose ==
  <<")">>

\* compliance_verify.ts lines 39, 80; skill_injector.ts line 52: "**Tokens saved:** "
TokensSavedLabel ==
  <<"*","*","T","o","k","e","n","s"," ","s","a","v","e","d",":","*","*"," ">>

\* compliance_verify.ts lines 39, 80; skill_injector.ts line 52: " | **Time:** "
TimeLabel ==
  <<" ","|"," ","*","*","T","i","m","e",":","*","*"," ">>

\* compliance_verify.ts lines 39, 80; skill_injector.ts line 52: "ms"
MsSuffix ==
  <<"m","s">>

\* skill_injector.ts line 47: "## Skill: "
SkillHeading ==
  <<"#","#"," ","S","k","i","l","l",":"," ">>

\* skill_injector.ts line 26: "## Available Skills ("
AvailableOpen ==
  <<"#","#"," ","A","v","a","i","l","a","b","l","e"," ","S","k","i","l","l",
    "s"," ","(">>

\* skill_injector.ts line 26: ")"
AvailableClose ==
  <<")">>

\* skill_injector.ts line 19: "- **"
ListBullet ==
  <<"-"," ","*","*">>

\* skill_injector.ts line 19: "**: "
ListIdSep ==
  <<"*","*",":"," ">>

\* skill_injector.ts line 30: "Use any module_id above as the skill_id parameter."
UseAnyModuleId ==
  <<"U","s","e"," ","a","n","y"," ","m","o","d","u","l","e","_","i","d"," ",
    "a","b","o","v","e"," ","a","s"," ","t","h","e"," ","s","k","i","l","l",
    "_","i","d"," ","p","a","r","a","m","e","t","e","r",".">>

\* skill_injector.ts line 16: "list"
ListSentinel ==
  <<"l","i","s","t">>

\* skill_injector.ts line 19: " — " is space, em dash (one character), space
ListDash ==
  <<" ","EM DASH"," ">>

\* An optional string argument or field: undefined, or a string.
Absent == [present |-> FALSE, val |-> ""]
Present(s) == [present |-> TRUE, val |-> s]
\* An optional text (skill_id) and an optional number (top_k).
AbsentText == [present |-> FALSE, val |-> <<>>]
PresentText(t) == [present |-> TRUE, val |-> t]
AbsentNum == [present |-> FALSE, val |-> 0]
PresentNum(n) == [present |-> TRUE, val |-> n]

\* JavaScript truthiness of an optional string: undefined and "" are falsy.
Truthy(o) == o.present /\ o.val # ""
\* a || b on an optional string and a string
OrElse(o, s) == IF Truthy(o) THEN o.val ELSE s

\* Texts of the callers and of the backend used as inputs.

\* a module_id: "m1"
Text_m1 ==
  <<"m","1">>

\* a module_id: "m2"
Text_m2 ==
  <<"m","2">>

\* a module name: "Security Review"
Text_SecurityReview ==
  <<"S","e","c","u","r","i","t","y"," ","R","e","v","i","e","w">>

\* a module name that contains a label of the metrics line: "Time: budget"
Text_TimeBudget ==
  <<"T","i","m","e",":"," ","b","u","d","g","e","t">>

\* a module_type: "skill"
Text_skill ==
  <<"s","k","i","l","l">>

\* a module_type: "rule"
Text_rule ==
  <<"r","u","l","e">>

\* a description: "Review code for..."
Text_ReviewCodeFor ==
  <<"R","e","v","i","e","w"," ","c","o","d","e"," ","f","o","r",".",".",".">>

\* a description: "Keep handlers fast."
Text_KeepHandlersFast ==
  <<"K","e","e","p"," ","h","a","n","d","l","e","r","s"," ","f","a","s","t",
    ".">>

\* a dense_prompt: "Check for injection flaws."
Text_CheckInjection ==
  <<"C","h","e","c","k"," ","f","o","r"," ","i","n","j","e","c","t","i","o",
    "n"," ","f","l","a","w","s",".">>

\* a dense_prompt that contains a label of the metrics line: "Tokens saved: none"
Text_TokensSavedEcho ==
  <<"T","o","k","e","n","s"," ","s","a","v","e","d",":"," ","n","o","n","e">>

\* a skill_id: "skills/tdd-workflow"
Text_tdd ==
  <<"s","k","i","l","l","s","/","t","d","d","-","w","o","r","k","f","l","o",
    "w">>


\* MatchedModule values of the backend; score is in hundredths.
ModSecurity ==
  [module_id |-> Text_m1, name |-> Text_SecurityReview,
   module_type |-> Text_skill, score |-> 93,
   description |-> Text_ReviewCodeFor]
ModTiming ==
  [module_id |-> Text_m2, name |-> Text_TimeBudget,
   module_type |-> Text_rule, score |-> 100,
   description |-> Text_KeepHandlersFast]
Modules == {ModSecurity, ModTiming}

\* Longest matched_modules / catalog sequence the backend returns here.
MaxModules == 2

RECURSIVE SeqsUpTo(_, _)
SeqsUpTo(S, n) ==
  IF n = 0 THEN {<<>>}
  ELSE SeqsUpTo(S, n - 1) \cup
       {Append(s, x) : s \in {t \in SeqsUpTo(S, n - 1) : Len(t) = n - 1}, x \in S}

\* metrics: tokens_saved is an integer, total_time_ms is in tenths of a ms.
MetricsValues ==
  {[tokens_saved |-> 1200, total_time_ms |-> 427],
   [tokens_saved |-> 0, total_time_ms |-> 5]}

DensePrompts == {Text_CheckInjection, Text_TokensSavedEcho}

\* LatentQueryResponse values
Responses ==
  [matched_modules : SeqsUpTo(Modules, MaxModules),
   dense_prompt : DensePrompts,
   metrics : MetricsValues]

\* ModuleCatalog values; total is the backend's own count.
CatalogEntry(m) ==
  [module_id |-> m.module_id, name |-> m.name, description |-> m.description]
Catalogs ==
  {[modules |-> [k \in 1..Len(s) |-> CatalogEntry(s[k])], total |-> t] :
     s \in SeqsUpTo(Modules, MaxModules), t \in {0, 47}}

\* The ways a backend call fails; client.ts is not among the sources, the
\* causes are those of the design (4.2, 7).
FailureCauses == {"network error", "timeout", "HTTP 500", "malformed body"}

\* Arguments of the callers.
Intents == {"", "design a login flow"}
Codes == {"", "eval(input)"}
SkillIds == {ListSentinel, Text_tdd, <<>>}
RulesFilters == {Absent, Present(""), Present("typescript")}
SessionIds == {Absent, Present("s-1"), Present("s-2")}

ArchitectArgs == [intent : Intents, session_id : SessionIds]
SkillArgs == [skill_id : SkillIds, session_id : SessionIds]
ComplianceArgs ==
  [code : Codes, rules_filter : RulesFilters, session_id : SessionIds]

\* The LatentQuery object handed to the client; absent fields are undefined.
NoQuery ==
  [intent |-> Absent, skill_id |-> AbsentText, code |-> Absent,
   tool_name |-> "", module_type_filter |-> Absent, top_k |-> AbsentNum,
   session_id |-> Absent]

\* The handlers' calls of the client (import of line 9): the operation
\* called and what it is called with.
QueryLatentBackend(req) == [op |-> "query", query |-> req, type |-> ""]
ListModules(type) == [op |-> "list", query |-> NoQuery, type |-> type]

\* client.ts is not among the sources.  By the design (4.2) an operation of
\* the client is a single HTTP call which the client does not retry: these
\* are the HTTP requests one call of the client issues.
HttpRequests(clientCall) == <<clientCall>>

RECURSIVE HttpRequestsOfAll(_)
HttpRequestsOfAll(clientCalls) ==
  IF clientCalls = <<>> THEN <<>>
  ELSE HttpRequests(Head(clientCalls)) \o HttpRequestsOfAll(Tail(clientCalls))

\* compliance_verify.ts lines 59-64
ArchitectQuery(args) ==
  [NoQuery EXCEPT !.intent = Present(args.intent),
                  !.session_id = args.session_id,
                  !.tool_name = "architect_consult",
                  !.top_k = PresentNum(5)]

\* A query that ignores rules_filter.
ComplianceQuery_AlwaysRule(args) ==
  [NoQuery EXCEPT !.code = Present(args.code),
                  !.tool_name = "compliance_verify",
                  !.module_type_filter = Present("rule"),
                  !.top_k = PresentNum(5),
                  !.session_id = args.session_id]

\* A query built without the caller's session_id.
ComplianceQuery_NoSession(args) ==
  [NoQuery EXCEPT !.code = Present(args.code),
                  !.tool_name = "compliance_verify",
                  !.module_type_filter = Present(OrElse(args.rules_filter, "rule")),
                  !.top_k = PresentNum(5)]

\* compliance_verify.ts lines 16-22
ComplianceQuery(args) ==
  [NoQuery EXCEPT !.code = Present(args.code),
                  !.tool_name = "compliance_verify",
                  !.module_type_filter = Present(OrElse(args.rules_filter, "rule")),
                  !.top_k = PresentNum(5),
                  !.session_id = args.session_id]

\* A query that also carries the skill_id as its intent.
SkillQuery_AlsoIntent(args) ==
  [NoQuery EXCEPT !.skill_id = PresentText(args.skill_id),
                  !.intent = Present("skill"),
                  !.tool_name = "skill_injector",
                  !.session_id = args.session_id]

\* skill_injector.ts lines 37-41
SkillQuery(args) ==
  [NoQuery EXCEPT !.skill_id = PresentText(args.skill_id),
                  !.tool_name = "skill_injector",
                  !.session_id = args.session_id]

\* A metrics line that lost its second half.
MetricsLine_NoTime(metrics) ==
  TokensSavedLabel \o NatToText(metrics.tokens_saved)

\* The metrics line shared by the three templates.
MetricsLine(metrics) ==
  TokensSavedLabel \o NatToText(metrics.tokens_saved) \o TimeLabel
    \o ToFixed0(metrics.total_time_ms) \o MsSuffix

\* compliance_verify.ts line 27
RuleLine(m) ==
  BulletOpen \o ToFixed2(m.score) \o BulletName \o m.name \o RuleSep
    \o Slice0(m.description, 80)

\* compliance_verify.ts lines 24-40
ComplianceText(response) ==
  LET rulesList ==
        Join([k \in 1..Len(response.matched_modules) |->
                RuleLine(response.matched_modules[k])], NL)
  IN Join(<<ComplianceHeading, <<>>, response.dense_prompt, <<>>,
            Rule3Dashes, RulesMatched, rulesList,
            MetricsLine(response.metrics)>>, NL)

\* compliance_verify.ts line 68
ModuleLine(m) ==
  BulletOpen \o ToFixed2(m.score) \o BulletName \o m.name \o TypeOpen
    \o m.module_type \o TypeClose

\* A renderer that lists the matches by descending score.
ArchitectText_SortedByScore(response) ==
  LET mods == response.matched_modules
      Rank(k) == 1 + Cardinality({j \in 1..Len(mods) :
                        \/ mods[j].score > mods[k].score
                        \/ mods[j].score = mods[k].score /\ j < k})
      sorted == [r \in 1..Len(mods) |->
                   mods[CHOOSE k \in 1..Len(mods) : Rank(k) = r]]
      moduleList ==
        Join([k \in 1..Len(sorted) |-> ModuleLine(sorted[k])], NL)
  IN Join(<<ArchitectHeading, <<>>, response.dense_prompt, <<>>,
            Rule3Dashes, MatchedModules, moduleList,
            MetricsLine(response.metrics)>>, NL)

\* compliance_verify.ts lines 66-81
ArchitectText(response) ==
  LET moduleList ==
        Join([k \in 1..Len(response.matched_modules) |->
                ModuleLine(response.matched_modules[k])], NL)
  IN Join(<<ArchitectHeading, <<>>, response.dense_prompt, <<>>,
            Rule3Dashes, MatchedModules, moduleList,
            MetricsLine(response.metrics)>>, NL)

\* A heading that never uses the matches.
MatchedName_AlwaysSkillId(args, response) == args.skill_id

\* skill_injector.ts lines 43-44: response.matched_modules[0]?.name || skill_id
MatchedName(args, response) ==
  IF response.matched_modules # <<>> /\ response.matched_modules[1].name # <<>>
    THEN response.matched_modules[1].name
    ELSE args.skill_id

\* skill_injector.ts lines 46-53
SkillText(args, response) ==
  Join(<<SkillHeading \o MatchedName(args, response), <<>>,
         response.dense_prompt, <<>>, Rule3Dashes,
         MetricsLine(response.metrics)>>, NL)

\* skill_injector.ts line 19
SkillBullet(m) ==
  ListBullet \o m.module_id \o ListIdSep \o m.name \o ListDash
    \o Slice0(m.description, 100)

\* A listing whose heading counts the entries it shows.
SkillListText_CountsEntries(moduleList) ==
  Join(<<AvailableOpen \o NatToText(Len(moduleList.modules)) \o AvailableClose,
         <<>>>>
       \o [k \in 1..Len(moduleList.modules) |->
             SkillBullet(moduleList.modules[k])]
       \o <<<<>>, UseAnyModuleId>>, NL)

\* skill_injector.ts lines 18-31
SkillListText(moduleList) ==
  Join(<<AvailableOpen \o NatToText(moduleList.total) \o AvailableClose,
         <<>>>>
       \o [k \in 1..Len(moduleList.modules) |->
             SkillBullet(moduleList.modules[k])]
       \o <<<<>>, UseAnyModuleId>>, NL)

(***************************************************************************)
(* Part 3.  The gateway process: mcp-server/src/index.ts                   *)
(***************************************************************************)

\* Number of tool calls the gateway has in flight at once.
MaxInFlight == 2
Slots == 1..MaxInFlight

IdleCall == [st |-> "idle", tool |-> "", args |-> <<>>, sent |-> <<>>]
NoLast ==
  [tool |-> "", args |-> <<>>, sent |-> <<>>, outcome |-> "none",
   response |-> <<>>, text |-> <<>>, cause |-> ""]

GwInit ==
  /\ gw = "starting"
  /\ gwExit = -1
  /\ calls = [c \in Slots |-> IdleCall]
  /\ last = NoLast
  /\ failedBefore = FALSE

\* index.ts lines 92-97: main() connects the transport.
GatewayConnect ==
  /\ gw = "starting"
  /\ gw' = "serving"
  /\ UNCHANGED <<gwExit, calls, last, failedBefore>>
  /\ UNCHANGED <<orchVars, landVars>>

\* A catch that only logs: the process then ends with status 0.
GatewayConnectFails_ExitZero ==
  /\ gw = "starting"
  /\ gw' = "exited"
  /\ gwExit' = 0
  /\ UNCHANGED <<calls, last, failedBefore>>
  /\ UNCHANGED <<orchVars, landVars>>

\* index.ts lines 99-102: main() rejects, process.exit(1).
GatewayConnectFails ==
  /\ gw = "starting"
  /\ gw' = "exited"
  /\ gwExit' = 1
  /\ UNCHANGED <<calls, last, failedBefore>>
  /\ UNCHANGED <<orchVars, landVars>>

\* A handler, started for a free slot, runs up to its await: it has built
\* its request and has made the client calls `sent`.
Await(c, tool, at, args, sent) ==
  /\ calls' = [calls EXCEPT ![c] =
                 [st |-> at, tool |-> tool, args |-> args, sent |-> sent]]
  /\ UNCHANGED <<gw, gwExit, last, failedBefore>>
  /\ UNCHANGED <<orchVars, landVars>>

\* A handler returns its content; the slot is free again.
Return(c, response, text) ==
  /\ gw = "serving"
  /\ last' = [tool |-> calls[c].tool, args |-> calls[c].args,
              sent |-> calls[c].sent, outcome |-> "ok",
              response |-> response, text |-> text, cause |-> ""]
  /\ calls' = [calls EXCEPT ![c] = IdleCall]
  /\ UNCHANGED <<gw, gwExit, failedBefore>>
  /\ UNCHANGED <<orchVars, landVars>>

\* index.ts line 44 / compliance_verify.ts lines 55-64
ArchitectConsultCall(c, args) ==
  /\ gw = "serving"
  /\ calls[c].st = "idle"
  /\ Await(c, "architect_consult", "await_query", args,
           <<QueryLatentBackend(ArchitectQuery(args))>>)

\* compliance_verify.ts lines 66-83
ArchitectConsultReturn(c, response) ==
  /\ calls[c].tool = "architect_consult"
  /\ calls[c].st = "await_query"
  /\ Return(c, response, ArchitectText(response))

\* index.ts line 88 / compliance_verify.ts lines 11-22
ComplianceVerifyCall(c, args) ==
  /\ gw = "serving"
  /\ calls[c].st = "idle"
  /\ Await(c, "compliance_verify", "await_query", args,
           <<QueryLatentBackend(ComplianceQuery(args))>>)

\* compliance_verify.ts lines 24-42
ComplianceVerifyReturn(c, response) ==
  /\ calls[c].tool = "compliance_verify"
  /\ calls[c].st = "await_query"
  /\ Return(c, response, ComplianceText(response))

\* A handler that asks for the catalog and then queries all the same.
SkillInjectorCall_ListThenQuery(c, args) ==
  /\ gw = "serving"
  /\ calls[c].st = "idle"
  /\ IF args.skill_id = ListSentinel
       THEN Await(c, "skill_injector", "await_list", args,
                  <<ListModules("skill"),
                    QueryLatentBackend(SkillQuery(args))>>)
       ELSE Await(c, "skill_injector", "await_query", args,
                  <<QueryLatentBackend(SkillQuery(args))>>)

\* index.ts line 66 / skill_injector.ts lines 11-17 and 37-41
SkillInjectorCall(c, args) ==
  /\ gw = "serving"
  /\ calls[c].st = "idle"
  /\ IF args.skill_id = ListSentinel
       THEN Await(c, "skill_injector", "await_list", args,
                  <<ListModules("skill")>>)
       ELSE Await(c, "skill_injector", "await_query", args,
                  <<QueryLatentBackend(SkillQuery(args))>>)

\* skill_injector.ts lines 18-34
SkillInjectorListReturn(c, moduleList) ==
  /\ calls[c].tool = "skill_injector"
  /\ calls[c].st = "await_list"
  /\ Return(c, moduleList, SkillListText(moduleList))

\* A handler that keeps its arguments in a variable shared by the calls in
\* flight.
SkillInjectorReturn_SharedArgs(c, response) ==
  /\ calls[c].tool = "skill_injector"
  /\ calls[c].st = "await_query"
  /\ \E d \in Slots :
       /\ calls[d].tool = "skill_injector"
       /\ calls[d].st = "await_query"
       /\ Return(c, response, SkillText(calls[d].args, response))

\* skill_injector.ts lines 43-55
SkillInjectorReturn(c, response) ==
  /\ calls[c].tool = "skill_injector"
  /\ calls[c].st = "await_query"
  /\ Return(c, response, SkillText(calls[c].args, response))

\* A handler that catches the rejection and calls the client once more.
ToolCallFails_Retry(c, cause) ==
  /\ gw = "serving"
  /\ calls[c].st \in {"await_query", "await_list"}
  /\ Len(calls[c].sent) < 2
  /\ calls' = [calls EXCEPT ![c].sent = Append(@, @[1])]
  /\ UNCHANGED <<gw, gwExit, last, failedBefore>>
  /\ UNCHANGED <<orchVars, landVars>>

\* A rejection nobody handles, which ends the process.
ToolCallFails_Crash(c, cause) ==
  /\ gw = "serving"
  /\ calls[c].st \in {"await_query", "await_list"}
  /\ last' = [tool |-> calls[c].tool, args |-> calls[c].args,
              sent |-> calls[c].sent, outcome |-> "error",
              response |-> <<>>, text |-> <<>>, cause |-> cause]
  /\ calls' = [calls EXCEPT ![c] = IdleCall]
  /\ failedBefore' = TRUE
  /\ gw' = "exited"
  /\ gwExit' = 1
  /\ UNCHANGED <<orchVars, landVars>>

\* The awaited client call rejects.  No handler catches, so the handler's
\* promise rejects with the same cause and the server.tool callback of
\* index.ts lines 44, 66, 88 hands it to the protocol library, which answers
\* the call with an error result that carries the cause.
ToolCallFails(c, cause) ==
  /\ gw = "serving"
  /\ calls[c].st \in {"await_query", "await_list"}
  /\ last' = [tool |-> calls[c].tool, args |-> calls[c].args,
              sent |-> calls[c].sent, outcome |-> "error",
              response |-> <<>>, text |-> <<>>, cause |-> cause]
  /\ calls' = [calls EXCEPT ![c] = IdleCall]
  /\ failedBefore' = TRUE
  /\ UNCHANGED <<gw, gwExit>>
  /\ UNCHANGED <<orchVars, landVars>>

\* The client's request timeout expires while the backend has not answered
\* the call of slot c: the awaited client call rejects with a timeout.
ClientTimeout(c) == ToolCallFails(c, "timeout")

\* The steps of the gateway for given sets of slots, arguments and answers.
GatewayStep(slots, aArgs, sArgs, cArgs, responses, catalogs, causes) ==
  \/ GatewayConnect
  \/ GatewayConnectFails
  \/ \E c \in slots, args \in aArgs : ArchitectConsultCall(c, args)
  \/ \E c \in slots, args \in sArgs : SkillInjectorCall(c, args)
  \/ \E c \in slots, args \in cArgs : ComplianceVerifyCall(c, args)
  \/ \E c \in slots, r \in responses : ArchitectConsultReturn(c, r)
  \/ \E c \in slots, r \in responses : ComplianceVerifyReturn(c, r)
  \/ \E c \in slots, r \in responses : SkillInjectorReturn(c, r)
  \/ \E c \in slots, m \in catalogs : SkillInjectorListReturn(c, m)
  \/ \E c \in slots, cause \in causes : ToolCallFails(c, cause)

\* One call at a time, over all the arguments and answers above.
ToolsNext ==
  GatewayStep({1}, ArchitectArgs, SkillArgs, ComplianceArgs, Responses,
              Catalogs, FailureCauses)

\* Concurrent calls, over fewer arguments and answers.
GwArchitectArgs == [intent : {"design a login flow"}, session_id : {Absent, Present("s-1")}]
GwSkillArgs ==
  [skill_id : {ListSentinel, Text_tdd, Text_m1}, session_id : {Absent, Present("s-1")}]
GwComplianceArgs ==
  [code : {"eval(input)"}, rules_filter : {Absent}, session_id : {Absent, Present("s-1")}]
GwResponses ==
  [matched_modules : {<<>>, <<ModSecurity>>},
   dense_prompt : {Text_CheckInjection},
   metrics : {[tokens_saved |-> 1200, total_time_ms |-> 427]}]
GwCatalogs == {m \in Catalogs : m.total = 47 /\ Len(m.modules) <= 1}
GwCauses == {"network error", "timeout"}

GatewayNext ==
  GatewayStep(Slots, GwArchitectArgs, GwSkillArgs, GwComplianceArgs,
              GwResponses, GwCatalogs, GwCauses)

\* One call at a time, over answers that exercise the rendering: long
\* descriptions, a match without a name, scores in any order.
Desc(n) == [k \in 1..n |-> Digit(k % 10)]
DescLengths == {80, 81, 100, 101}
ModDescribed(n) ==
  [module_id |-> Text_m2, name |-> Text_SecurityReview,
   module_type |-> Text_rule, score |-> 50, description |-> Desc(n)]
ModNoName ==
  [module_id |-> Text_m1, name |-> <<>>, module_type |-> Text_skill,
   score |-> 93, description |-> Text_ReviewCodeFor]
RdModules ==
  {ModSecurity, ModTiming, ModNoName} \cup {ModDescribed(n) : n \in DescLengths}
RdResponses ==
  [matched_modules : SeqsUpTo(RdModules, MaxModules),
   dense_prompt : {Text_CheckInjection},
   metrics : {[tokens_saved |-> 1200, total_time_ms |-> 427]}]
RdCatalogs ==
  {[modules |-> [k \in 1..Len(s) |-> CatalogEntry(s[k])], total |-> 47] :
     s \in SeqsUpTo(RdModules, MaxModules)}
RdArchitectArgs == [intent : {"design a login flow"}, session_id : {Absent}]
RdSkillArgs == [skill_id : {ListSentinel, Text_tdd}, session_id : {Absent}]
RdComplianceArgs ==
  [code : {"eval(input)"}, rules_filter : {Absent}, session_id : {Absent}]
RdCauses == {"timeout"}

RenderNext ==
  GatewayStep({1}, RdArchitectArgs, RdSkillArgs, RdComplianceArgs,
              RdResponses, RdCatalogs, RdCauses)

(***************************************************************************)
(* Part 4.  The tool schemas of index.ts and the validation of arguments   *)
(***************************************************************************)

\* The value a caller sends for an argument: nothing, a number or a string.
\* (skill_id is a text, so its values come in a second set.)
JsUndefined == [type |-> "undefined", str |-> ""]
JsNumber == [type |-> "number", str |-> ""]
JsString(s) == [type |-> "string", str |-> s]
JsUndefinedText == [type |-> "undefined", str |-> <<>>]
JsNumberText == [type |-> "number", str |-> <<>>]
JsText(t) == [type |-> "string", str |-> t]

\* z.string()
ZString(v) == v.type = "string"
\* z.string().optional()
ZOptionalString(v) == v.type \in {"string", "undefined"}

\* A schema that declares intent optional.
ArchitectSchema_OptionalIntent(raw) ==
  ZOptionalString(raw.intent) /\ ZOptionalString(raw.session_id)

\* index.ts lines 32-43
ArchitectSchema(raw) == ZString(raw.intent) /\ ZOptionalString(raw.session_id)
\* index.ts lines 54-65
SkillSchema(raw) == ZString(raw.skill_id) /\ ZOptionalString(raw.session_id)
\* index.ts lines 75-87
ComplianceSchema(raw) ==
  /\ ZString(raw.code)
  /\ ZOptionalString(raw.rules_filter)
  /\ ZOptionalString(raw.session_id)

\* The arguments the callback gets: the parsed fields, and (for the
\* properties only) what was received.
ToOptional(v) == IF v.type = "string" THEN Present(v.str) ELSE Absent
ArchitectArgsOf(raw) ==
  [intent |-> raw.intent.str, session_id |-> ToOptional(raw.session_id),
   received |-> raw]
SkillArgsOf(raw) ==
  [skill_id |-> raw.skill_id.str, session_id |-> ToOptional(raw.session_id),
   received |-> raw]
ComplianceArgsOf(raw) ==
  [code |-> raw.code.str, rules_filter |-> ToOptional(raw.rules_filter),
   session_id |-> ToOptional(raw.session_id), received |-> raw]

\* The arguments fail the schema: the protocol library answers the call
\* with a validation error and does not run the callback.
SchemaRejects(c, tool, raw) ==
  /\ last' = [tool |-> tool, args |-> [received |-> raw], sent |-> <<>>,
              outcome |-> "invalid", response |-> <<>>, text |-> <<>>,
              cause |-> "validation error"]
  /\ UNCHANGED <<gw, gwExit, calls, failedBefore>>
  /\ UNCHANGED <<orchVars, landVars>>

\* index.ts lines 27-45
ArchitectConsultTool(c, raw) ==
  /\ gw = "serving"
  /\ calls[c].st = "idle"
  /\ IF ArchitectSchema(raw)
       THEN ArchitectConsultCall(c, ArchitectArgsOf(raw))
       ELSE SchemaRejects(c, "architect_consult", raw)

\* index.ts lines 48-67
SkillInjectorTool(c, raw) ==
  /\ gw = "serving"
  /\ calls[c].st = "idle"
  /\ IF SkillSchema(raw)
       THEN SkillInjectorCall(c, SkillArgsOf(raw))
       ELSE SchemaRejects(c, "skill_injector", raw)

\* index.ts lines 70-89
ComplianceVerifyTool(c, raw) ==
  /\ gw = "serving"
  /\ calls[c].st = "idle"
  /\ IF ComplianceSchema(raw)
       THEN ComplianceVerifyCall(c, ComplianceArgsOf(raw))
       ELSE SchemaRejects(c, "compliance_verify", raw)

\* What callers send: each argument missing, a number, or a string.
RawArchitectArgs ==
  [intent : {JsUndefined, JsNumber, JsString("design a login flow")},
   session_id : {JsUndefined, JsNumber, JsString("s-1")}]
RawSkillArgs ==
  [skill_id : {JsUndefinedText, JsNumberText, JsText(ListSentinel),
               JsText(Text_tdd)},
   session_id : {JsUndefined, JsNumber, JsString("s-1")}]
RawComplianceArgs ==
  [code : {JsUndefined, JsNumber, JsString("eval(input)")},
   rules_filter : {JsUndefined, JsNumber, JsString("typescript")},
   session_id : {JsUndefined, JsNumber, JsString("s-1")}]

\* The gateway with its validation, one call at a time.
DispatchNext ==
  \/ GatewayConnect
  \/ GatewayConnectFails
  \/ \E raw \in RawArchitectArgs : ArchitectConsultTool(1, raw)
  \/ \E raw \in RawSkillArgs : SkillInjectorTool(1, raw)
  \/ \E raw \in RawComplianceArgs : ComplianceVerifyTool(1, raw)
  \/ \E r \in GwResponses : ArchitectConsultReturn(1, r)
  \/ \E r \in GwResponses : ComplianceVerifyReturn(1, r)
  \/ \E r \in GwResponses : SkillInjectorReturn(1, r)
  \/ \E m \in GwCatalogs : SkillInjectorListReturn(1, m)
  \/ \E cause \in GwCauses : ToolCallFails(1, cause)

(***************************************************************************)
(* Part 5.  landing/app/api: the admin routes and POST /api/me/geo         *)
(***************************************************************************)

\* req.auth as the auth() wrapper hands it to a handler: null, or a session
\* with the user's id and role.
NoAuth == [user |-> FALSE, id |-> "", role |-> ""]
AuthAs(id, role) == [user |-> TRUE, id |-> id, role |-> role]
Auths ==
  {NoAuth, AuthAs("", "admin"), AuthAs("u1", "user"), AuthAs("u2", "admin")}

\* !req.auth?.user?.id
Unauthenticated(auth) == ~auth.user \/ auth.id = ""
\* A guard that asks for a session only.
Forbidden_AnySession(auth) == Unauthenticated(auth)

\* !req.auth?.user?.id || req.auth.user.role !== "admin"
Forbidden(auth) == Unauthenticated(auth) \/ auth.role # "admin"

UserIds == {"u1", "u2"}

\* Most payments the table holds here.
MaxPayments == 1
PaymentIds == 1..MaxPayments
NoPayment ==
  [exists |-> FALSE, userId |-> "", amount |-> 0, status |-> "", note |-> ""]
\* The status a payment has when the request that creates it names none.
DefaultStatus == "completed"

\* Math.round of a number given in tenths: the nearest integer, the larger
\* one on a tie.
MathRound(t) == (t + 5) \div 10

NoAnswer == [status |-> "", country |-> "", city |-> ""]
NoRequest ==
  [handler |-> "", auth |-> NoAuth, id |-> "", pid |-> 0, body |-> <<>>,
   code |-> 0, db |-> <<>>, answer |-> NoAnswer]

\* Most POST /api/me/geo requests in flight.
MaxGeoRequests == 2
GeoSlots == 1..MaxGeoRequests
NoGeo == [country |-> "", city |-> ""]
IdleGeo == [st |-> "idle", auth |-> NoAuth, geo |-> NoGeo]

LandInit ==
  /\ users = [u \in UserIds |->
                [role |-> IF u = "u2" THEN "admin" ELSE "user",
                 source |-> "google", country |-> "", city |-> ""]]
  /\ payments = [p \in PaymentIds |-> NoPayment]
  /\ geoReq = [g \in GeoSlots |-> IdleGeo]
  /\ lastReq = NoRequest

\* A handler answers: the request, the status code and the database
\* operations it performed, in order.
Answer(handler, auth, id, pid, body, code, db) ==
  lastReq' = [handler |-> handler, auth |-> auth, id |-> id, pid |-> pid,
              body |-> body, code |-> code, db |-> db, answer |-> NoAnswer]

\* admin/logs/route.ts lines 6-45
AdminGetLogs(auth) ==
  /\ IF Forbidden(auth)
       THEN Answer("GET logs", auth, "", 0, <<>>, 403, <<>>)
       ELSE Answer("GET logs", auth, "", 0, <<>>, 200,
                   <<"appLog.findMany", "appLog.count">>)
  /\ UNCHANGED <<users, payments, geoReq>>
  /\ UNCHANGED <<orchVars, gwVars>>

\* admin/stats/route.ts lines 6-91
AdminGetStats(auth) ==
  /\ IF Forbidden(auth)
       THEN Answer("GET stats", auth, "", 0, <<>>, 403, <<>>)
       ELSE Answer("GET stats", auth, "", 0, <<>>, 200,
                   <<"user.count", "apiKey.count", "usageLog.count",
                     "usageLog.groupBy", "$queryRaw", "payment.aggregate",
                     "$queryRaw", "$queryRaw", "$queryRaw", "$queryRaw">>)
  /\ UNCHANGED <<users, payments, geoReq>>
  /\ UNCHANGED <<orchVars, gwVars>>

\* admin/payments/route.ts lines 6-20
AdminGetPayments(auth) ==
  /\ IF Forbidden(auth)
       THEN Answer("GET payments", auth, "", 0, <<>>, 403, <<>>)
       ELSE Answer("GET payments", auth, "", 0, <<>>, 200, <<"payment.findMany">>)
  /\ UNCHANGED <<users, payments, geoReq>>
  /\ UNCHANGED <<orchVars, gwVars>>

\* The payment ids not in use.
FreeIds == {p \in PaymentIds : ~payments[p].exists}

\* admin/payments/route.ts line 37: !userId || !amount || amount <= 0
PaymentRejected(body) ==
  \/ ~Truthy(body.userId)
  \/ ~body.amount.present
  \/ body.amount.val = 0
  \/ body.amount.val <= 0

\* The record created by lines 44-52.
NewPayment(body) ==
  [exists |-> TRUE, userId |-> body.userId.val,
   amount |-> MathRound(body.amount.val), status |-> DefaultStatus,
   note |-> ""]

\* admin/payments/route.ts lines 23-55
AdminPostPayment(auth, body) ==
  /\ IF Forbidden(auth)
       THEN /\ Answer("POST payments", auth, "", 0, body, 403, <<>>)
            /\ UNCHANGED payments
       ELSE IF PaymentRejected(body)
         THEN /\ Answer("POST payments", auth, "", 0, body, 400, <<>>)
              /\ UNCHANGED payments
         ELSE /\ FreeIds # {}
              /\ LET p == CHOOSE q \in FreeIds : \A r \in FreeIds : q <= r
                 IN /\ payments' = [payments EXCEPT ![p] = NewPayment(body)]
                    /\ Answer("POST payments", auth, "", p, body, 201,
                              <<"payment.create">>)
  /\ UNCHANGED <<users, geoReq>>
  /\ UNCHANGED <<orchVars, gwVars>>

\* payments/[id]/route.ts lines 41-44: the fields of the update.
PaymentPatchData(body) ==
  [status |-> IF Truthy(body.status)
                   /\ body.status.val \in {"completed", "pending", "refunded"}
                THEN body.status ELSE Absent,
   note |-> body.note]

\* prisma update: the fields given replace those of the record.
Patched(record, data, fields) ==
  [f \in DOMAIN record |->
     IF f \in fields /\ data[f].present THEN data[f].val ELSE record[f]]

\* payments/[id]/route.ts lines 32-48.  An update of a record that does not
\* exist is rejected by the database and the request fails.
AdminPatchPayment(auth, pid, body) ==
  /\ IF Forbidden(auth)
       THEN /\ Answer("PATCH payments/[id]", auth, "", pid, body, 403, <<>>)
            /\ UNCHANGED payments
       ELSE IF ~payments[pid].exists
         THEN /\ Answer("PATCH payments/[id]", auth, "", pid, body, 500,
                        <<"payment.update">>)
              /\ UNCHANGED payments
         ELSE /\ payments' =
                   [payments EXCEPT ![pid] =
                      Patched(@, PaymentPatchData(body), {"status", "note"})]
              /\ Answer("PATCH payments/[id]", auth, "", pid, body, 200,
                        <<"payment.update">>)
  /\ UNCHANGED <<users, geoReq>>
  /\ UNCHANGED <<orchVars, gwVars>>

\* payments/[id]/route.ts lines 51-59
AdminDeletePayment(auth, pid) ==
  /\ IF Forbidden(auth)
       THEN /\ Answer("DELETE payments/[id]", auth, "", pid, <<>>, 403, <<>>)
            /\ UNCHANGED payments
       ELSE IF ~payments[pid].exists
         THEN /\ Answer("DELETE payments/[id]", auth, "", pid, <<>>, 500,
                        <<"payment.delete">>)
              /\ UNCHANGED payments
         ELSE /\ payments' = [payments EXCEPT ![pid] = NoPayment]
              /\ Answer("DELETE payments/[id]", auth, "", pid, <<>>, 200,
                        <<"payment.delete">>)
  /\ UNCHANGED <<users, geoReq>>
  /\ UNCHANGED <<orchVars, gwVars>>

\* users/[id]/route.ts lines 15-17: the fields of the update.
UserPatchData(body) ==
  [source |-> body.source,
   role |-> IF body.role.present /\ body.role.val \in {"user", "admin"}
              THEN body.role ELSE Absent]

\* users/[id]/route.ts lines 6-25
AdminPatchUser(auth, id, body) ==
  /\ IF Forbidden(auth)
       THEN /\ Answer("PATCH users/[id]", auth, id, 0, body, 403, <<>>)
            /\ UNCHANGED users
       ELSE LET data == UserPatchData(body)
            IN IF ~data.source.present /\ ~data.role.present
                 THEN /\ Answer("PATCH users/[id]", auth, id, 0, body, 400, <<>>)
                      /\ UNCHANGED users
                 ELSE /\ users' = [users EXCEPT ![id] =
                                     Patched(@, data, {"source", "role"})]
                      /\ Answer("PATCH users/[id]", auth, id, 0, body, 200,
                                <<"user.update">>)
  /\ UNCHANGED <<payments, geoReq>>
  /\ UNCHANGED <<orchVars, gwVars>>

\* What the admin requests carry.  Amounts are in tenths: 4 is 0.4.
PostPaymentBodies ==
  [userId : {Absent, Present(""), Present("u1")},
   amount : {AbsentNum, PresentNum(0), PresentNum(-10), PresentNum(4),
             PresentNum(15)}]
PatchPaymentBodies ==
  [status : {Absent, Present(""), Present("refunded"), Present("bogus")},
   note : {Absent, Present("checked")}]
PatchedUserIds == {"u1"}
PatchUserBodies ==
  [source : {Absent, Present("github")},
   role : {Absent, Present("admin"), Present("user"), Present("root")}]

AdminNext ==
  \/ \E auth \in Auths : AdminGetLogs(auth)
  \/ \E auth \in Auths : AdminGetStats(auth)
  \/ \E auth \in Auths : AdminGetPayments(auth)
  \/ \E auth \in Auths, body \in PostPaymentBodies : AdminPostPayment(auth, body)
  \/ \E auth \in Auths, pid \in PaymentIds, body \in PatchPaymentBodies :
       AdminPatchPayment(auth, pid, body)
  \/ \E auth \in Auths, pid \in PaymentIds : AdminDeletePayment(auth, pid)
  \/ \E auth \in Auths, id \in PatchedUserIds, body \in PatchUserBodies :
       AdminPatchUser(auth, id, body)

\* What lookupGeo(ip) gives for the address a request comes from: nothing
\* for an unknown address, else a country and a city.
GeoResults ==
  {NoGeo, [country |-> "AU", city |-> "Sydney"],
   [country |-> "US", city |-> "Austin"]}
GeoAuths == {NoAuth, AuthAs("u1", "user")}

\* The answer of POST /api/me/geo.
GeoAnswer(auth, code, db, answer) ==
  lastReq' = [handler |-> "POST geo", auth |-> auth, id |-> auth.id,
              pid |-> 0, body |-> <<>>, code |-> code, db |-> db,
              answer |-> answer]

\* geo/route.ts lines 7-15: the handler runs up to its await of findUnique.
GeoPost(g, auth, geo) ==
  /\ geoReq[g].st = "idle"
  /\ IF Unauthenticated(auth)
       THEN /\ GeoAnswer(auth, 401, <<>>, NoAnswer)
            /\ UNCHANGED geoReq
       ELSE /\ geoReq' = [geoReq EXCEPT ![g] =
                            [st |-> "await_find", auth |-> auth, geo |-> geo]]
            /\ UNCHANGED lastReq
  /\ UNCHANGED <<users, payments>>
  /\ UNCHANGED <<orchVars, gwVars>>

\* geo/route.ts lines 12-30: findUnique answers with the country stored at
\* that moment; the handler returns, or runs up to its await of update.
GeoFindReturns(g) ==
  /\ geoReq[g].st = "await_find"
  /\ LET auth == geoReq[g].auth
         geo == geoReq[g].geo
     IN IF users[auth.id].country # ""
          THEN /\ GeoAnswer(auth, 200, <<"user.findUnique">>,
                            [NoAnswer EXCEPT !.status = "already_set"])
               /\ geoReq' = [geoReq EXCEPT ![g] = IdleGeo]
          ELSE IF geo.country # ""
            THEN /\ geoReq' = [geoReq EXCEPT ![g].st = "await_update"]
                 /\ UNCHANGED lastReq
            ELSE /\ GeoAnswer(auth, 200, <<"user.findUnique">>, NoAnswer)
                 /\ geoReq' = [geoReq EXCEPT ![g] = IdleGeo]
  /\ UNCHANGED <<users, payments>>
  /\ UNCHANGED <<orchVars, gwVars>>

\* geo/route.ts lines 30-36: the update is done and the handler returns.
GeoUpdateReturns(g) ==
  /\ geoReq[g].st = "await_update"
  /\ LET auth == geoReq[g].auth
         geo == geoReq[g].geo
     IN /\ users' = [users EXCEPT ![auth.id].country = geo.country,
                                  ![auth.id].city = geo.city]
        /\ GeoAnswer(auth, 200, <<"user.findUnique", "user.update">>,
                     [status |-> "", country |-> geo.country,
                      city |-> geo.city])
  /\ geoReq' = [geoReq EXCEPT ![g] = IdleGeo]
  /\ UNCHANGED payments
  /\ UNCHANGED <<orchVars, gwVars>>

GeoNext ==
  \/ \E g \in GeoSlots, auth \in GeoAuths, geo \in GeoResults :
       GeoPost(g, auth, geo)
  \/ \E g \in GeoSlots : GeoFindReturns(g)
  \/ \E g \in GeoSlots : GeoUpdateReturns(g)


(***************************************************************************)
(* Specifications                                                          *)
(***************************************************************************)

vars == <<orchVars, gwVars, landVars>>

\* The orchestrator on its own, in every environment.
InitOrch == OrchInit /\ GwInit /\ LandInit
SpecOrch == InitOrch /\ [][OrchNext]_vars

\* The gateway, started by the script in the default environment.
InitGateway ==
  /\ OrchInit
  /\ envPORT = Unset
  /\ envBACKEND_PORT = Unset
  /\ GwInit
  /\ LandInit

\* The gateway serving one tool call at a time.
SpecTools == InitGateway /\ [][ToolsNext]_vars

\* The gateway serving concurrent tool calls.
SpecGateway == InitGateway /\ [][GatewayNext]_vars

\* The gateway serving concurrent tool calls; the timeout of a pending
\* request is finite, so it expires unless the request ends before.
SpecGatewayLive ==
  InitGateway /\ [][GatewayNext]_vars
    /\ \A c \in Slots : WF_vars(ClientTimeout(c))

\* The gateway rendering the answers of the backend.
SpecRender == InitGateway /\ [][RenderNext]_vars

\* The admin routes of the web application.
SpecAdmin == InitGateway /\ [][AdminNext]_vars

\* POST /api/me/geo, several requests at a time.
SpecGeo == InitGateway /\ [][GeoNext]_vars

\* The gateway validating what callers send.
SpecDispatch == InitGateway /\ [][DispatchNext]_vars

(***************************************************************************)
(* Properties of the startup orchestrator                                  *)
(***************************************************************************)

SomeProbeSucceeded == \E k \in 1..Len(probes) : probes[k].ok
NoProbeSucceeded == \A k \in 1..Len(probes) : ~probes[k].ok

\* C1 - readiness gating: the gateway is started, and its environment is
\* prepared, only after a health probe of the backend has succeeded; the
\* gateway is never running while no probe has succeeded.
C1_ReadinessGating ==
  /\ gatewayStarted => SomeProbeSucceeded
  /\ OrchState \in {"Ready", "Running"} => SomeProbeSucceeded

C1_Witness == gatewayStarted /\ pc = "running" /\ SomeProbeSucceeded

\* C2 - startup failure is fatal: the script exits only after exactly 30
\* failed probes, with status 1 and without having started the gateway;
\* once 30 probes have failed the only step left is that exit, after which
\* nothing is probed or launched again.
C2_FailedState ==
  /\ pc = "exited" =>
       /\ Len(probes) = 30
       /\ NoProbeSucceeded
       /\ exitStatus = 1
       /\ ~gatewayStarted
  /\ (Len(probes) = 30 /\ NoProbeSucceeded) => pc \in {"giveup", "exited"}
  /\ NoProbeSucceeded => ~gatewayStarted /\ Len(probes) <= 30

C3_Original_KWaits ==
  OrchState = "Ready" => (probes[Len(probes)].ok /\ sleeps = Len(probes))

\* C3 (amended) - a backend first healthy on poll k (1 <= k <= 30) is Ready
\* after exactly k polls, the k-th being the only successful one, and after
\* exactly k - 1 one-second waits: no wait follows the successful poll.
C3_ReadyAfterKPolls ==
  OrchState \in {"Ready", "Running"} =>
    /\ Len(probes) \in 1..30
    /\ probes[Len(probes)].ok
    /\ \A k \in 1..(Len(probes) - 1) : ~probes[k].ok
    /\ sleeps = Len(probes) - 1

C3_Witness ==
  /\ OrchState = "Ready"
  /\ Len(probes) = 5
  /\ probes[5].ok
  /\ sleeps = 4

\* C4 - port separation: the port the backend is launched on differs from
\* the external port the gateway is told to bind, in every environment.
C4_PortSeparation ==
  /\ backend.launched => backend.port # EXTERNAL_PORT
  /\ gatewayStarted => MCP_PORT # backend.port

(***************************************************************************)
(* Properties of the tool handlers and of the gateway process              *)
(***************************************************************************)

\* P holds of every tool call that is in flight or was completed last.
ForEveryCall(P(_, _, _)) ==
  /\ \A c \in Slots :
       calls[c].st # "idle" => P(calls[c].tool, calls[c].args, calls[c].sent)
  /\ last.tool # "" => P(last.tool, last.args, last.sent)

IsList(tool, args) == tool = "skill_injector" /\ args.skill_id = ListSentinel

EmptyRequired(tool, args) ==
  \/ tool = "architect_consult" /\ args.intent = ""
  \/ tool = "compliance_verify" /\ args.code = ""

\* C5 - architect_consult with intent "" and compliance_verify with code ""
\* end with an InvalidArgument error and issue no backend request.
C5_EmptyInputRejected ==
  /\ ForEveryCall(LAMBDA tool, args, sent :
                    EmptyRequired(tool, args) => HttpRequestsOfAll(sent) = <<>>)
  /\ (last.tool # "" /\ EmptyRequired(last.tool, last.args)) =>
       (last.outcome = "error" /\ last.cause = "InvalidArgument")

\* C6 - skill_injector with skill_id "list" makes exactly one client call,
\* the catalog listing for module type "skill", and never a query call,
\* whatever the session_id and whatever calls came before.
C6_ListNeverQueries ==
  ForEveryCall(LAMBDA tool, args, sent :
                 IsList(tool, args) =>
                   /\ Len(sent) = 1
                   /\ sent[1].op = "list"
                   /\ sent[1].type = "skill"
                   /\ \A k \in 1..Len(sent) : sent[k].op # "query")

C6_Witness ==
  /\ last.outcome = "ok"
  /\ IsList(last.tool, last.args)
  /\ last.args.session_id = Present("s-1")
  /\ failedBefore

\* the first literal of the metrics line: "Tokens saved:"
Lit_TokensSaved ==
  <<"T","o","k","e","n","s"," ","s","a","v","e","d",":">>

\* the second literal of the metrics line: "Time:"
Lit_Time ==
  <<"T","i","m","e",":">>

\* C7 (as stated) - every rendered text, the one of skill_injector("list")
\* included, contains "Tokens saved:" exactly once and "Time:" exactly once.
C7_Original_ExactlyOnce ==
  last.outcome = "ok" =>
    /\ Occurrences(Lit_TokensSaved, last.text) = 1
    /\ Occurrences(Lit_Time, last.text) = 1

\* Some text the caller or the backend supplied for the last call contains
\* the literal.
SuppliedTextHas(lit) ==
  IF IsList(last.tool, last.args)
    THEN \E k \in 1..Len(last.response.modules) :
           \/ Occurrences(lit, last.response.modules[k].module_id) > 0
           \/ Occurrences(lit, last.response.modules[k].name) > 0
           \/ Occurrences(lit, last.response.modules[k].description) > 0
    ELSE \/ Occurrences(lit, last.response.dense_prompt) > 0
         \/ (last.tool = "skill_injector"
               /\ Occurrences(lit, last.args.skill_id) > 0)
         \/ \E k \in 1..Len(last.response.matched_modules) :
              \/ Occurrences(lit, last.response.matched_modules[k].name) > 0
              \/ Occurrences(lit, last.response.matched_modules[k].module_type) > 0
              \/ Occurrences(lit, last.response.matched_modules[k].description) > 0

\* C7 (amended) - the text of architect_consult, of compliance_verify and of
\* skill_injector with a skill_id other than "list" contains each of the two
\* literals at least once, and exactly once when no text supplied by the
\* caller or the backend for that call contains it; the text of
\* skill_injector("list") has no metrics line and contains a literal only if
\* a catalog entry does.
C7_MetricsLineOnce ==
  last.outcome = "ok" =>
    \A lit \in {Lit_TokensSaved, Lit_Time} :
      IF IsList(last.tool, last.args)
        THEN ~SuppliedTextHas(lit) => Occurrences(lit, last.text) = 0
        ELSE /\ Occurrences(lit, last.text) >= 1
             /\ ~SuppliedTextHas(lit) => Occurrences(lit, last.text) = 1

C7_Witness ==
  /\ last.outcome = "ok"
  /\ last.tool = "compliance_verify"
  /\ Len(last.response.matched_modules) = 2
  /\ ~SuppliedTextHas(Lit_TokensSaved)
  /\ ~SuppliedTextHas(Lit_Time)
  /\ Occurrences(Lit_TokensSaved, last.text) = 1
  /\ Occurrences(Lit_Time, last.text) = 1

\* C8 - no silent retry: a tool call issues at most one backend request;
\* the only thing that happens to a call in flight is that it completes,
\* with the requests it had already issued, and a failed call is reported
\* as an error of that call.
C8_AtMostOneRequest ==
  /\ ForEveryCall(LAMBDA tool, args, sent : Len(HttpRequestsOfAll(sent)) <= 1)
  /\ last.outcome = "error" =>
       (Len(HttpRequestsOfAll(last.sent)) = 1 /\ last.cause # "")

C8_NoSilentRetry ==
  /\ []C8_AtMostOneRequest
  /\ [][\A c \in Slots :
          (calls[c].st # "idle" /\ calls'[c] # calls[c]) =>
            /\ calls'[c] = IdleCall
            /\ last'.tool = calls[c].tool
            /\ last'.sent = calls[c].sent
            /\ last'.outcome \in {"ok", "error"}]_vars

C8_Witness ==
  /\ last.outcome = "error"
  /\ Len(last.sent) = 1
  /\ \A c \in Slots : calls[c].st = "idle"
  /\ gw = "serving"

\* C9 - a failing backend call ends its tool call with an error that
\* carries the cause and leaves the process serving: free slots still
\* accept calls, a serving gateway never exits, and an exited gateway is
\* one whose startup failed before any tool call.
C9_ServingAfterFailure ==
  /\ last.outcome = "error" => last.cause \in FailureCauses
  /\ failedBefore =>
       /\ gw = "serving"
       /\ gwExit = -1
       /\ \A c \in Slots :
            calls[c].st = "idle" =>
              ENABLED ArchitectConsultCall(c, [intent |-> "design a login flow",
                                               session_id |-> Absent])
  /\ gw = "exited" =>
       /\ gwExit = 1
       /\ last = NoLast
       /\ ~failedBefore
       /\ \A c \in Slots : calls[c] = IdleCall

C9_CallFailuresNotFatal ==
  /\ []C9_ServingAfterFailure
  /\ [][gw = "serving" => gw' = "serving"]_vars

C9_Witness ==
  /\ failedBefore
  /\ last.outcome = "ok"
  /\ gw = "serving"
  /\ \E c \in Slots : calls[c].st # "idle"

\* C10 (as stated) - every backend request of every tool call, the catalog
\* listing of skill_injector("list") included, carries the call's session_id.
C10_Original_AlwaysForwarded ==
  ForEveryCall(LAMBDA tool, args, sent :
                 /\ sent # <<>>
                 /\ \A k \in 1..Len(sent) :
                      sent[k].query.session_id = args.session_id)

\* C10 (amended) - the query of architect_consult, of compliance_verify and
\* of skill_injector with a skill_id other than "list" carries exactly the
\* session_id of the call, and none when the call has none; the catalog
\* listing of skill_injector("list") has no session_id field and so carries
\* none, whatever the call supplies.
C10_SessionPassthrough ==
  ForEveryCall(LAMBDA tool, args, sent :
                 /\ sent # <<>>
                 /\ \A k \in 1..Len(sent) :
                      IF IsList(tool, args)
                        THEN sent[k].op = "list" /\ sent[k].query = NoQuery
                        ELSE /\ sent[k].op = "query"
                             /\ sent[k].query.session_id = args.session_id)

C10_Witness ==
  /\ last.outcome = "ok"
  /\ last.tool = "compliance_verify"
  /\ last.args.session_id = Present("s-2")
  /\ last.sent[1].query.session_id = Present("s-2")
  /\ \E c \in Slots :
       /\ calls[c].st = "await_query"
       /\ calls[c].args.session_id = Absent
       /\ ~calls[c].sent[1].query.session_id.present

\* The arguments violate the declared schema of the tool: the required
\* field is missing or not a string, or an optional field is neither
\* missing nor a string.
ViolatesSchema(tool, raw) ==
  \/ \E f \in DOMAIN raw : raw[f].type \notin {"string", "undefined"}
  \/ tool = "architect_consult" /\ raw.intent.type # "string"
  \/ tool = "skill_injector" /\ raw.skill_id.type # "string"
  \/ tool = "compliance_verify" /\ raw.code.type # "string"

\* C11 - a tool invocation whose arguments violate the declared schema is
\* answered with a validation error, its handler never runs and no backend
\* request is issued for it: every call whose handler ran was given valid
\* arguments, and a step that receives invalid arguments starts no call.
C11_Handled ==
  /\ \A c \in Slots :
       calls[c].st # "idle" =>
         ~ViolatesSchema(calls[c].tool, calls[c].args.received)
  /\ last.outcome \in {"ok", "error"} =>
       ~ViolatesSchema(last.tool, last.args.received)
  /\ last.outcome = "invalid" =>
       /\ ViolatesSchema(last.tool, last.args.received)
       /\ HttpRequestsOfAll(last.sent) = <<>>
       /\ last.cause = "validation error"

C11_SchemaViolationsRejected ==
  /\ []C11_Handled
  /\ [][last'.outcome = "invalid" /\ last' # last => calls' = calls]_vars

C11_Witness ==
  /\ last.outcome = "invalid"
  /\ last.tool = "compliance_verify"
  /\ last.args.received.code.type = "undefined"
  /\ last.args.received.session_id.type = "string"
  /\ \A c \in Slots : calls[c].st = "idle"

\* C12 - every accepted tool call eventually completes: a backend request
\* has a finite timeout, so an invocation whose backend never answers ends
\* with a tool-level error and does not stay pending forever.
C12_EveryCallCompletes ==
  \A c \in Slots : (calls[c].st # "idle") ~> (calls[c].st = "idle")

C12_Witness ==
  /\ last.outcome = "error"
  /\ last.cause = "timeout"
  /\ Len(last.sent) = 1
  /\ \E c \in Slots : calls[c].st # "idle"

\* The text of a call, from its own arguments and its own answer.
TextOf(call, answer) ==
  CASE call.tool = "architect_consult" -> ArchitectText(answer)
    [] call.tool = "compliance_verify" -> ComplianceText(answer)
    [] call.tool = "skill_injector" /\ call.st = "await_list" ->
         SkillListText(answer)
    [] OTHER -> SkillText(call.args, answer)

\* The request of a call, from its own arguments.
RequestOf(tool, args) ==
  CASE tool = "architect_consult" -> QueryLatentBackend(ArchitectQuery(args))
    [] tool = "compliance_verify" -> QueryLatentBackend(ComplianceQuery(args))
    [] tool = "skill_injector" /\ args.skill_id = ListSentinel ->
         ListModules("skill")
    [] OTHER -> QueryLatentBackend(SkillQuery(args))

\* Slot c starts a call in this step.
Starts(c) == calls[c].st = "idle" /\ calls'[c].st # "idle"
\* Slot c returns text in this step.
Completes(c) ==
  calls[c].st # "idle" /\ calls'[c].st = "idle" /\ last'.outcome = "ok"

\* C13 - concurrent tool calls are independent: whatever else is in flight,
\* the request and the text of an invocation are functions of its own
\* arguments and its own backend answer only, a step of one invocation
\* leaves every other invocation as it was, and nothing of a call is kept
\* once it has ended.
C13_StepsAreLocal ==
  \A c \in Slots :
    /\ Starts(c) =>
         /\ calls'[c].sent = <<RequestOf(calls'[c].tool, calls'[c].args)>>
         /\ \A d \in Slots \ {c} : calls'[d] = calls[d]
    /\ Completes(c) =>
         /\ last'.tool = calls[c].tool
         /\ last'.args = calls[c].args
         /\ last'.text = TextOf(calls[c], last'.response)
         /\ \A d \in Slots \ {c} : calls'[d] = calls[d]

C13_ConcurrentCallsIndependent ==
  /\ [](\A c \in Slots : calls[c].st = "idle" => calls[c] = IdleCall)
  /\ [][C13_StepsAreLocal]_vars

C13_Witness ==
  /\ last.outcome = "ok"
  /\ last.tool = "skill_injector"
  /\ last.args.skill_id = Text_tdd
  /\ last.response.matched_modules = <<>>
  /\ \E c \in Slots :
       /\ calls[c].tool = "skill_injector"
       /\ calls[c].st = "await_query"
       /\ calls[c].args.skill_id = Text_m1

\* The lines of a text: the parts between its line breaks.
SplitLines(text) ==
  LET brk == {0} \cup {k \in 1..Len(text) : text[k] = "\n"} \cup {Len(text) + 1}
      Nth(j) == CHOOSE k \in brk : Cardinality({b \in brk : b < k}) = j - 1
  IN [j \in 1..(Cardinality(brk) - 1) |->
        SubSeq(text, Nth(j) + 1, Nth(j + 1) - 1)]

NonEmptyLine(l) == l # <<>>

\* The module lines of a rendered text: the lines between the line that
\* announces the matches and the metrics line (with no match there is one
\* empty line).
RenderedModuleLines(text, prompt) ==
  LET lines == SplitLines(text)
      first == 6 + Len(SplitLines(prompt))
  IN SelectSeq(SubSeq(lines, first, Len(lines) - 1), NonEmptyLine)

\* The line that shows one match.
LineFor(tool, m) ==
  IF tool = "compliance_verify" THEN RuleLine(m) ELSE ModuleLine(m)

\* C14 - the gateway does not reorder matches: in the text of
\* architect_consult and compliance_verify there is one module line per
\* element of the backend's matched_modules, the k-th line showing the k-th
\* element, whatever the scores are.
C14_NoReordering ==
  (last.outcome = "ok" /\ last.tool \in {"architect_consult", "compliance_verify"})
    => LET mods == last.response.matched_modules
           shown == RenderedModuleLines(last.text, last.response.dense_prompt)
       IN /\ Len(shown) = Len(mods)
          /\ \A k \in 1..Len(mods) : shown[k] = LineFor(last.tool, mods[k])

C14_Witness ==
  /\ last.outcome = "ok"
  /\ last.tool = "architect_consult"
  /\ last.response.matched_modules = <<ModSecurity, ModTiming>>
  /\ ModSecurity.score < ModTiming.score

Min(a, b) == IF a < b THEN a ELSE b

\* line is lead followed by exactly the first min(limit, n) characters of
\* the n-character description desc, and by nothing else.
ShowsTruncated(line, lead, desc, limit) ==
  /\ Len(line) = Len(lead) + Min(limit, Len(desc))
  /\ SubSeq(line, 1, Len(lead)) = lead
  /\ \A k \in 1..Min(limit, Len(desc)) : line[Len(lead) + k] = desc[k]

\* What precedes the description in a rule line and in a listing bullet.
RuleLead(m) == BulletOpen \o ToFixed2(m.score) \o BulletName \o m.name \o RuleSep
BulletLead(m) == ListBullet \o m.module_id \o ListIdSep \o m.name \o ListDash

\* The bullets of a listing: the lines between the heading with its empty
\* line and the empty line before the usage sentence.
RenderedBullets(text) ==
  LET lines == SplitLines(text) IN SubSeq(lines, 3, Len(lines) - 2)

\* C15 - description truncation is exact: a compliance_verify rule line
\* ends with exactly the first min(80, n) characters of the n-character
\* description, a skill-listing bullet with exactly the first min(100, n),
\* and nothing (no ellipsis) follows the truncated text.
C15_TruncationExact ==
  /\ (last.outcome = "ok" /\ last.tool = "compliance_verify") =>
       LET mods == last.response.matched_modules
           shown == RenderedModuleLines(last.text, last.response.dense_prompt)
       IN /\ Len(shown) = Len(mods)
          /\ \A k \in 1..Len(mods) :
               ShowsTruncated(shown[k], RuleLead(mods[k]),
                              mods[k].description, 80)
  /\ (last.outcome = "ok" /\ last.tool = "skill_injector"
        /\ IsList(last.tool, last.args)) =>
       LET mods == last.response.modules
           shown == RenderedBullets(last.text)
       IN /\ Len(shown) = Len(mods)
          /\ \A k \in 1..Len(mods) :
               ShowsTruncated(shown[k], BulletLead(mods[k]),
                              mods[k].description, 100)

C15_Witness ==
  /\ last.outcome = "ok"
  /\ last.tool = "compliance_verify"
  /\ Len(last.response.matched_modules) >= 1
  /\ Len(last.response.matched_modules[1].description) = 81

\* The one query of a compliance_verify call has top_k = 5.
ComplianceTopK(tool, args, sent) ==
  tool = "compliance_verify" =>
    /\ Len(sent) = 1
    /\ sent[1].op = "query"
    /\ sent[1].query.top_k = PresentNum(5)

\* The claim as stated: module_type_filter is "rule" when rules_filter is
\* absent and the supplied value whenever rules_filter is present.
C16_Original_PresentUnchanged ==
  ForEveryCall(LAMBDA tool, args, sent :
    tool = "compliance_verify" =>
      /\ ComplianceTopK(tool, args, sent)
      /\ sent[1].query.module_type_filter =
           IF args.rules_filter.present
             THEN Present(args.rules_filter.val) ELSE Present("rule"))

\* C16 - compliance_verify always builds its backend query with top_k = 5;
\* its module_type_filter is "rule" when rules_filter is absent or the empty
\* string, and the supplied rules_filter, unchanged, when it is present and
\* not empty.
C16_FilterDefault ==
  ForEveryCall(LAMBDA tool, args, sent :
    tool = "compliance_verify" =>
      /\ ComplianceTopK(tool, args, sent)
      /\ sent[1].query.module_type_filter =
           IF args.rules_filter.present /\ args.rules_filter.val # ""
             THEN Present(args.rules_filter.val) ELSE Present("rule"))

C16_Witness ==
  /\ last.tool = "compliance_verify"
  /\ last.args.rules_filter = Present("")
  /\ last.sent[1].query.module_type_filter = Present("rule")
  /\ last.sent[1].query.top_k = PresentNum(5)
  /\ \E c \in Slots :
       /\ calls[c].tool = "compliance_verify"
       /\ calls[c].st = "await_query"
       /\ calls[c].args.rules_filter = Present("typescript")
       /\ calls[c].sent[1].query.module_type_filter = Present("typescript")

\* The heading of a rendered text: its first line.
HeadingOf(text) == SplitLines(text)[1]

\* A skill_injector call, other than the listing, that returned text.
SkillReturned ==
  /\ last.outcome = "ok"
  /\ last.tool = "skill_injector"
  /\ ~IsList(last.tool, last.args)

\* The claim as stated: the heading is the name of the first match
\* whenever there is a match, and the skill_id when there is none.
C17_Original_FirstNameIfAnyMatch ==
  SkillReturned =>
    HeadingOf(last.text) =
      SkillHeading \o (IF last.response.matched_modules # <<>>
                         THEN last.response.matched_modules[1].name
                         ELSE last.args.skill_id)

\* C17 - for skill_injector with a skill_id other than "list", the heading
\* is the name of the first matched module when matched_modules is
\* non-empty and that name is not the empty string; it is the requested
\* skill_id when matched_modules is empty or the first name is empty.
C17_HeadingFallback ==
  SkillReturned =>
    LET mods == last.response.matched_modules
    IN HeadingOf(last.text) =
         SkillHeading \o (IF mods # <<>> /\ Len(mods[1].name) > 0
                            THEN mods[1].name
                            ELSE last.args.skill_id)

C17_Witness ==
  /\ SkillReturned
  /\ last.response.matched_modules # <<>>
  /\ last.response.matched_modules[1] = ModNoName
  /\ HeadingOf(last.text) = SkillHeading \o Text_tdd

\* C18 - for skill_injector with a skill_id other than "list", the backend
\* query has the shape of architect_consult's (top_k = 5), is keyed by
\* skill_id, is restricted to the skill namespace (module_type_filter =
\* "skill") and has tool_name = "skill_injector".
C18_SkillQueryShape ==
  ForEveryCall(LAMBDA tool, args, sent :
    (tool = "skill_injector" /\ ~IsList(tool, args)) =>
      /\ Len(sent) = 1
      /\ sent[1].op = "query"
      /\ sent[1].query.skill_id = PresentText(args.skill_id)
      /\ sent[1].query.tool_name = "skill_injector"
      /\ sent[1].query.top_k = PresentNum(5)
      /\ sent[1].query.module_type_filter = Present("skill"))

\* The fields among intent, skill_id and code that a query populates.
Populated(q) ==
  {f \in {"intent", "code"} : q[f].present}
    \cup (IF q.skill_id.present THEN {"skill_id"} ELSE {})

\* C19 - every backend query carries exactly the fields of its originating
\* tool: tool_name names the tool that was invoked and exactly one of
\* intent / skill_id / code is populated: intent for architect_consult
\* (with top_k = 5 and no module_type_filter), skill_id for skill_injector,
\* code for compliance_verify.
C19_QueryFieldsOfTool ==
  ForEveryCall(LAMBDA tool, args, sent :
    \A k \in 1..Len(sent) :
      sent[k].op = "query" =>
        LET q == sent[k].query
        IN /\ q.tool_name = tool
           /\ Populated(q) =
                {CASE tool = "architect_consult" -> "intent"
                   [] tool = "skill_injector" -> "skill_id"
                   [] tool = "compliance_verify" -> "code"}
           /\ tool = "architect_consult" =>
                /\ q.intent = Present(args.intent)
                /\ q.top_k = PresentNum(5)
                /\ q.module_type_filter = Absent
           /\ tool = "skill_injector" => q.skill_id = PresentText(args.skill_id)
           /\ tool = "compliance_verify" => q.code = Present(args.code))

C19_Witness ==
  /\ last.outcome = "ok"
  /\ last.tool = "skill_injector"
  /\ last.args.skill_id = Text_tdd
  /\ Populated(last.sent[1].query) = {"skill_id"}
  /\ \E c \in Slots :
       /\ calls[c].tool = "architect_consult"
       /\ calls[c].st = "await_query"
       /\ Populated(calls[c].sent[1].query) = {"intent"}
       /\ calls[c].sent[1].query.tool_name = "architect_consult"

\* "[0.93] **Security Review** (skill)"
Expected_ModuleLine ==
  <<"[","0",".","9","3","]"," ","*","*","S","e","c","u","r","i","t","y"," ",
    "R","e","v","i","e","w","*","*"," ","(","s","k","i","l","l",")">>
\* "1200"
Expected_TokensSaved ==
  <<"1","2","0","0">>
\* "43ms"
Expected_Time ==
  <<"4","3","m","s">>

\* "Check for injection flaws."
Expected_Prompt ==
  <<"C","h","e","c","k"," ","f","o","r"," ","i","n","j","e","c","t","i","o",
    "n"," ","f","l","a","w","s",".">>

\* architect_consult("design a login flow") was answered with the one match
\* Security Review (m1, skill, 0.93), the dense_prompt "Check for injection
\* flaws." and the metrics tokens_saved 1200, total_time_ms 42.7.
LoginFlowExample ==
  /\ last.outcome = "ok"
  /\ last.tool = "architect_consult"
  /\ last.args.intent = "design a login flow"
  /\ last.response =
       [matched_modules |-> <<ModSecurity>>,
        dense_prompt |-> Text_CheckInjection,
        metrics |-> [tokens_saved |-> 1200, total_time_ms |-> 427]]

\* C20 - end to end, the text returned for that call contains
\* "[0.93] **Security Review** (skill)", "1200" and "43ms": the score with
\* two decimals, the time rounded to no decimals and followed by "ms".
C20_EndToEndRendering ==
  LoginFlowExample =>
    /\ Occurrences(Expected_ModuleLine, last.text) >= 1
    /\ Occurrences(Expected_TokensSaved, last.text) >= 1
    /\ Occurrences(Expected_Time, last.text) >= 1

C20_Witness ==
  /\ LoginFlowExample
  /\ ModSecurity.module_id = Text_m1
  /\ ModSecurity.name = Text_SecurityReview
  /\ ModSecurity.module_type = Text_skill
  /\ ModSecurity.score = 93
  /\ Text_CheckInjection = Expected_Prompt

\* C21 - at the Ready -> Running handoff the gateway is configured with the
\* external port as captured before the backend was launched (PORT, or 3000
\* when PORT is unset or empty) and with a backend base URL built from the
\* internal port; that internal port is the one the backend was launched on
\* and every health probe was sent to.  The PORT given to the backend
\* process does not change the port handed to the gateway.
C21_HandoffConfiguration ==
  OrchState = "Running" =>
    /\ gatewayStarted
    /\ MCP_PORT = (IF envPORT.isset /\ envPORT.val # "" THEN envPORT.val ELSE "3000")
    /\ backend.launched
    /\ backend.port =
         (IF envBACKEND_PORT.isset /\ envBACKEND_PORT.val # ""
            THEN envBACKEND_PORT.val ELSE "8420")
    /\ AC_BACKEND_URL = [host |-> "127.0.0.1", port |-> backend.port, path |-> ""]
    /\ \A k \in 1..Len(probes) :
         probes[k].url =
           [host |-> "127.0.0.1", port |-> backend.port, path |-> "/v1/health"]

C21_Witness ==
  /\ OrchState = "Running"
  /\ envPORT = SetTo("8080")
  /\ envBACKEND_PORT = Unset
  /\ MCP_PORT = "8080"
  /\ backend.port = "8420"
  /\ AC_BACKEND_URL.port = "8420"
  /\ Len(probes) >= 2

\* The changes of state the design allows.
AllowedTransitions ==
  {<<"Starting", "WaitingForBackend">>,
   <<"WaitingForBackend", "Ready">>,
   <<"WaitingForBackend", "Failed">>,
   <<"Ready", "Running">>}

\* C22 - the orchestrator's states are visited only in the order Starting,
\* WaitingForBackend, Ready, Running: no step goes backwards, Failed is
\* entered only from WaitingForBackend and is never left, and Running is
\* entered only from Ready.
C22_StateOrder ==
  [][OrchState' # OrchState => <<OrchState, OrchState'>> \in AllowedTransitions]_vars

C22_Witness ==
  /\ OrchState = "Running"
  /\ Len(probes) = 3
  /\ sleeps = 2

\* C23 - when the gateway fails to connect its transport at startup, the
\* gateway process exits with a non-zero status: the step that ends a
\* starting gateway sets a status above 0, an exited gateway has served no
\* call, and no failure ever yields the status 0.
C23_ExitedNonZero ==
  /\ gwExit # 0
  /\ gw = "exited" <=> gwExit > 0
  /\ gw = "exited" => /\ last = NoLast
                      /\ \A c \in Slots : calls[c] = IdleCall

C23_ConnectFailureExitsNonZero ==
  /\ []C23_ExitedNonZero
  /\ [][(gw = "starting" /\ gw' = "exited") => gwExit' > 0]_vars
  /\ [][gw = "exited" => gw' = "exited" /\ gwExit' = gwExit]_vars

C23_Witness ==
  /\ gw = "exited"
  /\ gwExit = 1
  /\ last = NoLast

\* C24 - startup always terminates: the orchestrator reaches Running or
\* Failed after at most 30 health probes and never remains in
\* WaitingForBackend, whatever the backend does; so as long as it is in
\* neither of the two states the script has a next step.
C24_StartupTerminates ==
  /\ Len(probes) <= 30
  /\ OrchState \in {"Running", "Failed"} \/ ENABLED OrchNext

\* skill_injector("list") returned text.
ListReturned ==
  /\ last.outcome = "ok"
  /\ last.tool = "skill_injector"
  /\ IsList(last.tool, last.args)

\* C25 - the output of skill_injector("list") is a heading that shows the
\* catalog's total field, followed by exactly one bullet per entry of the
\* catalog's modules, in catalog order, each bullet showing that entry's
\* module_id, name and truncated description.
C25_ListingShape ==
  ListReturned =>
    LET catalog == last.response
        lines == SplitLines(last.text)
        shown == RenderedBullets(last.text)
    IN /\ lines[1] = AvailableOpen \o NatToText(catalog.total) \o AvailableClose
       /\ Len(lines) = Len(catalog.modules) + 4
       /\ Len(shown) = Len(catalog.modules)
       /\ \A k \in 1..Len(shown) :
            shown[k] = BulletLead(catalog.modules[k])
                         \o SubSeq(catalog.modules[k].description, 1,
                                   Min(100, Len(catalog.modules[k].description)))

C25_Witness ==
  /\ ListReturned
  /\ last.response.total = 47
  /\ Len(last.response.modules) = 2
  /\ last.response.modules[1].module_id = Text_m2
  /\ last.response.modules[2].module_id = Text_m1

\* The probes that wait for their answer: the probe is a foreground command
\* of the script, so it is the one the script stands at.
Outstanding == IF pc \in {"probe", "hung"} THEN 1 ELSE 0
\* The probes issued so far: those answered and the one outstanding.
Issued == Len(probes) + Outstanding

C26_Polling ==
  /\ Issued <= 30
  /\ Outstanding <= 1
  /\ \A k \in 1..Len(probes) :
       probes[k].ok => /\ k = Len(probes)
                       /\ Outstanding = 0
                       /\ OrchState \in {"Ready", "Running"}
  /\ sleeps <= Cardinality({k \in 1..Len(probes) : ~probes[k].ok /\ k # 30})

\* C26 - health polling is strictly sequential and stops at the first
\* success: at most 30 probes are issued, at most one is outstanding at a
\* time, none is issued after one has succeeded, and the 1-second wait
\* happens only after a failed probe that is not the 30th.
C26_SequentialPolling ==
  /\ []C26_Polling
  /\ [][Issued' > Issued => NoProbeSucceeded /\ Outstanding = 0]_vars
  /\ [][sleeps' # sleeps =>
          /\ sleeps' = sleeps + 1
          /\ probes' = probes
          /\ Len(probes) \in 1..29
          /\ ~probes[Len(probes)].ok
          /\ sleeps = Len(probes) - 1]_vars

C26_Witness ==
  /\ Len(probes) = 30
  /\ ~probes[30].ok
  /\ sleeps = 29
  /\ OrchState = "Failed"

AdminHandlers ==
  {"GET logs", "GET stats", "GET payments", "POST payments",
   "PATCH payments/[id]", "DELETE payments/[id]", "PATCH users/[id]"}

\* The request has no authenticated user, or its user is not an admin.
NotAnAdmin(auth) == ~auth.user \/ auth.id = "" \/ auth.role # "admin"

\* C27 - admin-only access: every admin API handler answers 403 and
\* performs no database read or write whenever the request has no
\* authenticated user or the user's role is not "admin".
C27_Refused ==
  (lastReq.handler \in AdminHandlers /\ NotAnAdmin(lastReq.auth)) =>
    /\ lastReq.code = 403
    /\ lastReq.db = <<>>

C27_AdminOnly ==
  /\ []C27_Refused
  /\ [][(lastReq'.handler \in AdminHandlers /\ NotAnAdmin(lastReq'.auth))
          => (users' = users /\ payments' = payments)]_vars

C27_Witness ==
  /\ lastReq.handler = "DELETE payments/[id]"
  /\ lastReq.auth = AuthAs("u1", "user")
  /\ lastReq.code = 403
  /\ payments[lastReq.pid].exists

\* An admin's request was answered last.
AdminAsked(handler) ==
  lastReq.handler = handler /\ ~NotAnAdmin(lastReq.auth)

\* C29 - every payment record created through POST /api/admin/payments has
\* a strictly positive integer amount: a request with missing userId,
\* missing amount or amount <= 0 gets 400 and creates no record, and a
\* request that passes the check stores an amount > 0.
C29_PositiveAmounts ==
  /\ \A p \in PaymentIds : payments[p].exists => payments[p].amount > 0
  /\ AdminAsked("POST payments") =>
       IF \/ ~lastReq.body.userId.present
          \/ ~lastReq.body.amount.present
          \/ lastReq.body.amount.val <= 0
         THEN lastReq.code = 400 /\ lastReq.db = <<>>
         ELSE lastReq.code = 201 => payments[lastReq.pid].amount > 0

\* C30 - the admin PATCH handlers keep enumerated fields inside their
\* allowed sets: a user's role is always "user" or "admin", a payment's
\* status is always "completed", "pending" or "refunded", and a request
\* that carries only an invalid value performs no database update.
C30_EnumsKept ==
  /\ \A u \in UserIds : users[u].role \in {"user", "admin"}
  /\ \A p \in PaymentIds :
       payments[p].exists =>
         payments[p].status \in {"completed", "pending", "refunded"}
  /\ (/\ AdminAsked("PATCH users/[id]")
      /\ ~lastReq.body.source.present
      /\ lastReq.body.role.present
      /\ lastReq.body.role.val \notin {"user", "admin"})
       => lastReq.db = <<>>
  /\ (/\ AdminAsked("PATCH payments/[id]")
      /\ payments[lastReq.pid].exists
      /\ ~lastReq.body.note.present
      /\ lastReq.body.status.present
      /\ lastReq.body.status.val \notin {"completed", "pending", "refunded"})
       => lastReq.db = <<>>

\* Slot g answers its request in this step.
GeoAnswered(g) == geoReq[g].st # "idle" /\ geoReq'[g].st = "idle"

\* C28 - a user's recorded location is written at most once: for any
\* interleaving of POST /api/me/geo requests by the same user, two
\* concurrent ones included, once country is set no request changes
\* country or city, and a request answered after that gets "already_set".
C28_WrittenOnce ==
  [][/\ \A u \in UserIds :
          users[u].country # "" =>
            /\ users'[u].country = users[u].country
            /\ users'[u].city = users[u].city
     /\ \A g \in GeoSlots :
          (GeoAnswered(g) /\ users[geoReq[g].auth.id].country # "")
            => lastReq'.answer.status = "already_set"]_vars

====
